---- MODULE Spec2Model ----
(***************************************************************************)
(* Context attestation extension: the content script's verification loop   *)
(* and fetch interceptor (content.js), and the background worker's         *)
(* VERIFY_CONTEXT handler with its device key pair (background.js).        *)
(*                                                                         *)
(* One browsing context (one content script instance) talks to one         *)
(* background process.  Strings that the code searches with includes()     *)
(* are sequences of text fragments; includes() is sub-sequence search.     *)
(* Scores are in thousandths (0.7 is 700).  Time is in seconds.            *)
(***************************************************************************)
EXTENDS Integers, Sequences, FiniteSets, TLC

\* ---------------------------------------------------------------- bounds
\* Most verifyContext runs that may be outstanding at once in the model.
MaxInFlight == 2
\* Seconds that pass in one Advance step.
Step == 5

\* ------------------------------------------------------ program constants
\* setInterval(verifyContext, 25000)
TickInterval == 25
\* "tokens expire in 30"
TokenTTL == 30
\* let consistencyThreshold = 0.7
consistencyThreshold == 700

\* JavaScript null / an absent optional value: the empty tuple; a present
\* value v is <<v>>.
Null == <<>>
Some(v) == <<v>>
\* verificationInterval = null
NoTimer == 0

\* ------------------------------------------------------------ text helpers
\* String.prototype.includes on fragment sequences.
Includes(s, sub) ==
  \E i \in 0..(Len(s) - Len(sub)) : SubSeq(s, i + 1, i + Len(sub)) = sub

\* String.prototype.replace(pattern, '') with a string pattern: removes the
\* first occurrence only.
RemoveFirst(s, sub) ==
  IF Includes(s, sub)
  THEN LET i == CHOOSE k \in 0..(Len(s) - Len(sub)) :
                  /\ SubSeq(s, k + 1, k + Len(sub)) = sub
                  /\ \A j \in 0..(k - 1) : SubSeq(s, j + 1, j + Len(sub)) # sub
       IN SubSeq(s, 1, i) \o SubSeq(s, i + Len(sub) + 1, Len(s))
  ELSE s

\* The site registry of the content script, in declaration order.
SUPPORTED_SITES ==
  << [domain |-> <<"walmart.com">>, apiPattern |-> <<"api.", "walmart.com">>, storePattern |-> <<"/store/">>],
     [domain |-> <<"amazon.com">>,  apiPattern |-> <<"api.", "amazon.com">>,  storePattern |-> <<"/dp/">>],
     [domain |-> <<"target.com">>,  apiPattern |-> <<"api.", "target.com">>,  storePattern |-> <<"/p/">>],
     [domain |-> <<"bestbuy.com">>, apiPattern |-> <<"api.", "bestbuy.com">>, storePattern |-> <<"/products/">>],
     [domain |-> <<"ebay.com">>,    apiPattern |-> <<"api.", "ebay.com">>,    storePattern |-> <<"/itm/">>],
     [domain |-> <<"costco.com">>,  apiPattern |-> <<"api.", "costco.com">>,  storePattern |-> <<"/product/">> ] >>

\* The endpoint registry of the background worker: its keys, in order.
API_ENDPOINTS ==
  << <<"walmart.com">>, <<"amazon.com">>, <<"target.com">>,
     <<"bestbuy.com">>, <<"ebay.com">>, <<"costco.com">> >>

\* Index of the first registry entry whose domain the hostname contains, or
\* 0 when find() returns undefined.
getCurrentSite(hostname) ==
  LET currentDomain == RemoveFirst(hostname, <<"www.">>)
      hits == {i \in 1..Len(SUPPORTED_SITES) :
                 Includes(currentDomain, SUPPORTED_SITES[i].domain)}
  IN IF hits = {} THEN 0 ELSE CHOOSE i \in hits : \A j \in hits : i <= j

\* Index of the endpoint for the URL's hostname, or 0 for null.
getApiEndpoint(hostname) ==
  LET domain == RemoveFirst(hostname, <<"www.">>)
      hits == {i \in 1..Len(API_ENDPOINTS) : Includes(domain, API_ENDPOINTS[i])}
  IN IF hits = {} THEN 0 ELSE CHOOSE i \in hits : \A j \in hits : i <= j

\* ------------------------------------------------------------ input sets
\* Hostnames of the page the content script is injected in.
Hostnames == { <<"www.", "walmart.com">>, <<"example.com">> }
\* Token strings and scores the Attestation Service may answer with.
TokenValues == {"t1", "t2"}
ServerScores == {0, 699, 700, 1000}
\* Targets of outbound fetch calls made by the page.
FetchUrls ==
  { <<"https://", "api.", "walmart.com", "/secure-context/orders">>,
    <<"https://", "example.com", "/unrelated">>,
    <<"https://", "example.com", "/?next=", "api.", "walmart.com">> }
\* First argument of fetch: a URL string, or a Request/URL object.
FetchArgKinds == {"string", "object"}

VARIABLES
  pageHost,              \* window.location.hostname of the page
  loaded,                \* the content script's top-level code has run
  activeToken,           \* content.js activeToken
  verificationInterval,  \* content.js verificationInterval
  timers,                \* live setInterval timers: id -> seconds to next fire
  inflight,              \* verifyContext runs awaiting their response, oldest first
  pageToken,             \* window.secureContextToken
  tokenAge,              \* seconds since activeToken was received
  stopped,               \* stop has run and start has not run since
  emitted,               \* page events dispatched by the last step
  lastOp,                \* the handler the last step ran
  lastResponse,          \* the response the last step handled, if any
  lastFetch,             \* the outcome of the last intercepted fetch, if any
  deviceKeyPair,         \* background.js deviceKeyPair
  storage,               \* chrome.storage.local keys
  installPc,             \* progress of the onInstalled listener
  popupPc,               \* the popup's operation in progress
  contextValid,          \* the content script's extension context is valid
  sent,                  \* HTTP requests sent by the last step
  ctx,                   \* result of the last collectContextData, if any
  hashed                 \* objects hashed so far, each with its hash

vars == << pageHost, loaded, activeToken, verificationInterval, timers, inflight,
           pageToken, tokenAge, stopped, emitted, lastOp, lastResponse, lastFetch,
           deviceKeyPair, storage, installPc, popupPc, contextValid, sent,
           ctx, hashed >>

contentVars == << activeToken, verificationInterval, timers, inflight, pageToken,
                  tokenAge, stopped >>
bgVars == << deviceKeyPair, storage, installPc >>
popupVars == << popupPc, contextValid >>
scorerVars == << ctx, hashed >>
\* A step that sends no HTTP request and is no step of the popup or scorer.
Quiet == sent' = << >> /\ UNCHANGED << popupVars, scorerVars >>

\* ------------------------------------------------------------- page events
StatusEvent(status, score) ==
  [type |-> "secureContextStatusChanged", detail |-> status, consistencyScore |-> score]
TokenEvent(token) ==
  [type |-> "secureContextTokenUpdated", detail |-> token.token,
   consistencyScore |-> token.consistencyScore]
FailedEvent(reason, score) ==
  [type |-> "secureContextVerificationFailed", detail |-> reason, consistencyScore |-> score]


\* ------------------------------------------------------------ content script
\* chrome.runtime.sendMessage({type: 'VERIFY_CONTEXT'}): a new run, awaiting
\* its response while the background worker collects context data.  Once the
\* extension has been reloaded the call throws in the orphaned content
\* script, which verifyContext catches like a rejection.
SendVerifyContext(runs) ==
  Append(runs, [stage |-> IF contextValid THEN "collecting" ELSE "closed",
                superseded |-> FALSE])

\* The runs still awaiting their response once run i has received its own.
\* Those started before run i are from now on older than a completed run.
Completed(runs, i) ==
  [k \in 1..(i - 1) |-> [runs[k] EXCEPT !.superseded = TRUE]]
    \o SubSeq(runs, i + 1, Len(runs))

\* setInterval: the smallest unused positive id stands for the fresh timer id.
FreshTimer(live) == CHOOSE id \in 1..(Cardinality(live) + 1) : id \notin live

\* Mutant: the threshold comparison made exclusive.
ResponseAccepted_Strict(response) ==
  /\ response.success
  /\ response.token # Null
  /\ response.token[1].consistencyScore > consistencyThreshold

\* The test of the success branch of verifyContext.  A thrown TypeError
\* (response undefined after a rejected sendMessage) never reaches it.
ResponseAccepted(response) ==
  /\ response.success
  /\ response.token # Null
  /\ response.token[1].consistencyScore >= consistencyThreshold

\* response.token?.consistencyScore, with the parameter default of
\* handleVerificationFailure standing in for undefined.
FailureScore(response) ==
  IF response.kind = "rejected" \/ response.token = Null
  THEN 0
  ELSE response.token[1].consistencyScore

\* injectTokenToPage(token); notifyPageContextStatus('active', score)
AcceptToken(token) ==
  /\ activeToken' = Some(token)
  /\ pageToken' = Some(token)
  /\ tokenAge' = 0
  /\ emitted' = << TokenEvent(token), StatusEvent("active", token.consistencyScore) >>
  /\ UNCHANGED << verificationInterval, timers >>

\* Mutant: the failure handler also cancels the recurring timer.
handleVerificationFailure_StopsLoop(consistencyScore) ==
  /\ activeToken' = Null
  /\ pageToken' = Null
  /\ tokenAge' = 0
  /\ emitted' = << FailedEvent(IF consistencyScore # 0
                               THEN "Insufficient consistency score"
                               ELSE "Verification error",
                               consistencyScore) >>
  /\ timers' = [t \in DOMAIN timers \ {verificationInterval} |-> timers[t]]
  /\ verificationInterval' = NoTimer

\* handleVerificationFailure(consistencyScore = 0)
handleVerificationFailure(consistencyScore) ==
  /\ activeToken' = Null
  /\ pageToken' = Null
  /\ tokenAge' = 0
  /\ emitted' = << FailedEvent(IF consistencyScore # 0
                               THEN "Insufficient consistency score"
                               ELSE "Verification error",
                               consistencyScore) >>
  /\ UNCHANGED << verificationInterval, timers >>

\* The continuation of verifyContext after its await: run i receives response.
OnResponse(i, response) ==
  /\ inflight' = Completed(inflight, i)
  /\ lastResponse' = Some(response)
  /\ lastFetch' = Null
  /\ IF response.kind # "rejected" /\ ResponseAccepted(response)
     THEN AcceptToken(response.token[1])
     ELSE handleVerificationFailure(FailureScore(response))
  /\ UNCHANGED << pageHost, loaded, stopped >>

\* Mutant: start schedules a new timer without cancelling the existing one.
startContextVerification_NoClear ==
  /\ Len(inflight) < MaxInFlight
  /\ inflight' = SendVerifyContext(inflight)
  /\ LET live == DOMAIN timers
         id == FreshTimer(live)
     IN /\ timers' = [t \in live \cup {id} |-> IF t = id THEN TickInterval ELSE timers[t]]
        /\ verificationInterval' = id
  /\ stopped' = FALSE
  /\ emitted' = << >>
  /\ UNCHANGED << activeToken, pageToken, tokenAge >>

\* startContextVerification()
startContextVerification ==
  /\ Len(inflight) < MaxInFlight
  /\ inflight' = SendVerifyContext(inflight)
  /\ LET live == IF verificationInterval # NoTimer
                 THEN DOMAIN timers \ {verificationInterval}
                 ELSE DOMAIN timers
         id == FreshTimer(live)
     IN /\ timers' = [t \in live \cup {id} |-> IF t = id THEN TickInterval ELSE timers[t]]
        /\ verificationInterval' = id
  /\ stopped' = FALSE
  /\ emitted' = << >>
  /\ UNCHANGED << activeToken, pageToken, tokenAge >>

\* Mutant: stop forgets the handle without cancelling the timer.
stopContextVerification_KeepsTimer ==
  /\ verificationInterval' = NoTimer
  /\ UNCHANGED timers
  /\ activeToken' = Null
  /\ tokenAge' = 0
  /\ stopped' = TRUE
  /\ emitted' = << StatusEvent("inactive", 0) >>
  /\ UNCHANGED << inflight, pageToken >>

\* stopContextVerification()
stopContextVerification ==
  /\ IF verificationInterval # NoTimer
     THEN /\ timers' = [t \in DOMAIN timers \ {verificationInterval} |-> timers[t]]
          /\ verificationInterval' = NoTimer
     ELSE UNCHANGED << timers, verificationInterval >>
  /\ activeToken' = Null
  /\ tokenAge' = 0
  /\ stopped' = TRUE
  /\ emitted' = << StatusEvent("inactive", 0) >>
  /\ UNCHANGED << inflight, pageToken >>

\* The last statement of the content script: start on a supported store page.
ScriptLoad(onStorePage) ==
  /\ ~loaded
  /\ loaded' = TRUE
  /\ lastOp' = "load"
  /\ Quiet
  /\ IF getCurrentSite(pageHost) # 0 /\ onStorePage
     THEN startContextVerification
     ELSE UNCHANGED contentVars /\ emitted' = << >>
  /\ lastResponse' = Null /\ lastFetch' = Null
  /\ UNCHANGED << pageHost, bgVars >>

\* chrome.runtime.onMessage listener for NAVIGATION_CHANGE.
NavigationChange(inStore) ==
  /\ loaded
  /\ lastOp' = IF ~inStore THEN "stop"
              ELSE IF verificationInterval # NoTimer THEN "startOver" ELSE "start"
  /\ Quiet
  /\ IF inStore THEN startContextVerification ELSE stopContextVerification
  /\ lastResponse' = Null /\ lastFetch' = Null
  /\ UNCHANGED << pageHost, loaded, bgVars >>

\* A setInterval timer fires: verifyContext() is called, the timer rearms.
Tick(id) ==
  /\ id \in DOMAIN timers
  /\ timers[id] = 0
  /\ Len(inflight) < MaxInFlight
  /\ timers' = [timers EXCEPT ![id] = TickInterval]
  /\ inflight' = SendVerifyContext(inflight)
  /\ lastOp' = "tick"
  /\ Quiet
  /\ emitted' = << >>
  /\ lastResponse' = Null /\ lastFetch' = Null
  /\ UNCHANGED << pageHost, loaded, activeToken, verificationInterval, pageToken,
                  tokenAge, stopped, bgVars >>

\* Step seconds pass.  A due timer fires before more time passes.
Advance ==
  /\ loaded
  /\ DOMAIN timers # {} \/ activeToken # Null
  /\ \A id \in DOMAIN timers : timers[id] > 0
  /\ timers' = [id \in DOMAIN timers |-> IF timers[id] > Step THEN timers[id] - Step ELSE 0]
  /\ tokenAge' = IF activeToken = Null THEN 0
                 ELSE IF tokenAge + Step < TokenTTL THEN tokenAge + Step ELSE TokenTTL
  /\ lastOp' = "advance"
  /\ Quiet
  /\ emitted' = << >>
  /\ lastResponse' = Null /\ lastFetch' = Null
  /\ UNCHANGED << pageHost, loaded, activeToken, verificationInterval, inflight,
                  pageToken, stopped, bgVars >>


\* ------------------------------------------------------------- interceptor
HeaderNames == {"X-Secure-Context-Token", "X-Context-Consistency-Score", "X-Shopping-Site"}
NoHeaders == [h \in HeaderNames |-> Null]

\* The headers the wrapper writes when activeToken is truthy.
AttestationHeaders(token, siteIndex) ==
  [h \in HeaderNames |->
     IF h = "X-Secure-Context-Token" THEN Some(<<token.token>>)
     ELSE IF h = "X-Context-Consistency-Score" THEN Some(<<ToString(token.consistencyScore)>>)
     ELSE Some(SUPPORTED_SITES[siteIndex].domain)]

\* window.fetch = async function(...args): the outcome of one call whose first
\* argument is url, passed as a string or as an object without includes().
InterceptFetch(url, argKind) ==
  LET currentSite == getCurrentSite(pageHost)
  IN IF currentSite = 0
     THEN [url |-> url, argKind |-> argKind, headers |-> NoHeaders, forwarded |-> TRUE]
     ELSE IF argKind # "string"
     THEN \* args[0].includes is not a function: the wrapper rejects
          [url |-> url, argKind |-> argKind, headers |-> NoHeaders, forwarded |-> FALSE]
     ELSE IF Includes(url, SUPPORTED_SITES[currentSite].apiPattern) /\ activeToken # Null
     THEN [url |-> url, argKind |-> argKind,
           headers |-> AttestationHeaders(activeToken[1], currentSite), forwarded |-> TRUE]
     ELSE [url |-> url, argKind |-> argKind, headers |-> NoHeaders, forwarded |-> TRUE]

\* The page calls fetch.
Fetch(url, argKind) ==
  /\ loaded
  /\ lastFetch' = Some(InterceptFetch(url, argKind))
  /\ lastOp' = "fetch"
  /\ Quiet
  /\ emitted' = << >>
  /\ lastResponse' = Null
  /\ UNCHANGED << pageHost, loaded, contentVars, bgVars >>

\* ------------------------------------------------------- background worker
ErrorResponse(message) ==
  [kind |-> "message", success |-> FALSE, token |-> Null, error |-> message]
TokenResponse(token) ==
  [kind |-> "message", success |-> TRUE, token |-> Some(token), error |-> ""]
\* sendMessage rejects: no receiver, or the port closed before a response.
RejectedSend ==
  [kind |-> "rejected", success |-> FALSE, token |-> Null, error |-> "port closed"]
\* { token: null, consistencyScore: 0 }; "null" stands for the null token.
DegradedToken == [token |-> "null", consistencyScore |-> 0]

\* The checks of requestZKPToken before it signs: the message of the Error
\* thrown, or "" when it goes on to sign and post.
requestZKPTokenChecks(keyPair, siteHost) ==
  IF keyPair = Null THEN "Device key pair not initialized"
  ELSE IF getApiEndpoint(siteHost) = 0 THEN "Unsupported shopping site"
  ELSE ""

\* The catch blocks of the VERIFY_CONTEXT handler: the response for an Error
\* thrown by requestZKPToken.
ResponseForError(message) ==
  IF message = "Unsupported shopping site"
  THEN TokenResponse(DegradedToken)
  ELSE ErrorResponse(message)

\* deviceKeyPair.privateKey and deviceKeyPair.publicKey of a generated pair.
PrivateKey(keyPair) == << "privateKey", keyPair[1] >>
PublicKey(keyPair) == << "publicKey", keyPair[1] >>

\* signData(data, privateKey): an ECDSA signature, hex encoded.
signData(data, privateKey) == << "ecdsa-p256-sha256", data, privateKey[2] >>

\* exportPublicKey(publicKey): the raw export, hex encoded.
exportPublicKey(publicKey) == << "raw", publicKey[2] >>

\* An HTTP POST with a JSON body: field name -> value.
Post(endpoint, path, body) == [endpoint |-> endpoint, path |-> path, body |-> body]

\* Mutant: the whole key pair is serialised into the body.
IssueTokenBody_LeaksKey(keyPair) ==
  [f \in {"contextHash", "signature", "consistencyScore", "publicKey", "privateKey"} |->
     IF f = "contextHash" THEN << "contextHash" >>
     ELSE IF f = "signature" THEN signData(<< "contextHash" >>, PrivateKey(keyPair))
     ELSE IF f = "consistencyScore" THEN << "consistencyScore" >>
     ELSE IF f = "publicKey" THEN exportPublicKey(PublicKey(keyPair))
     ELSE PrivateKey(keyPair)]

\* The JSON body requestZKPToken posts; the hash and score of the collected
\* snapshot are opaque here.
IssueTokenBody(keyPair) ==
  [f \in {"contextHash", "signature", "consistencyScore", "publicKey"} |->
     IF f = "contextHash" THEN << "contextHash" >>
     ELSE IF f = "signature" THEN signData(<< "contextHash" >>, PrivateKey(keyPair))
     ELSE IF f = "consistencyScore" THEN << "consistencyScore" >>
     ELSE exportPublicKey(PublicKey(keyPair))]

\* fetch(`${apiEndpoint}/issue-token`, ...)
IssueTokenRequest(keyPair, siteHost) ==
  Post(API_ENDPOINTS[getApiEndpoint(siteHost)], "/issue-token", IssueTokenBody(keyPair))

\* chrome.runtime.onInstalled listener, up to its first await's end.
InstallGenerate ==
  /\ installPc = "pending"
  /\ deviceKeyPair' = Some("kp")
  /\ installPc' = "generated"
  /\ lastOp' = "install"
  /\ Quiet
  /\ emitted' = << >>
  /\ lastResponse' = Null /\ lastFetch' = Null
  /\ UNCHANGED << pageHost, loaded, contentVars, storage >>

\* chrome.storage.local.set({ publicKey })
InstallPersist ==
  /\ installPc = "generated"
  /\ storage' = storage \cup {"publicKey"}
  /\ installPc' = "done"
  /\ lastOp' = "install"
  /\ Quiet
  /\ emitted' = << >>
  /\ lastResponse' = Null /\ lastFetch' = Null
  /\ UNCHANGED << pageHost, loaded, contentVars, deviceKeyPair >>

\* The background process restarts: module state is initialised again
\* (let deviceKeyPair = null), storage is kept, onInstalled does not fire, and
\* the ports of the requests it was serving close.
Restart ==
  /\ installPc = "done"
  /\ deviceKeyPair' = Null
  /\ inflight' = [i \in 1..Len(inflight) |-> [inflight[i] EXCEPT !.stage = "closed"]]
  /\ lastOp' = "restart"
  /\ Quiet
  /\ emitted' = << >>
  /\ lastResponse' = Null /\ lastFetch' = Null
  /\ UNCHANGED << pageHost, loaded, activeToken, verificationInterval, timers,
                  pageToken, tokenAge, stopped, storage, installPc >>

\* Mutant: after a failed collection the handler still requests a token.
CollectFail_StillIssues(i) ==
  /\ i \in 1..Len(inflight)
  /\ inflight[i].stage = "collecting"
  /\ deviceKeyPair # Null
  /\ getApiEndpoint(pageHost) # 0
  /\ lastOp' = "collectFail"
  /\ inflight' = [inflight EXCEPT ![i].stage = "issuing"]
  /\ sent' = << IssueTokenRequest(deviceKeyPair, pageHost) >>
  /\ emitted' = << >>
  /\ lastResponse' = Null /\ lastFetch' = Null
  /\ UNCHANGED << pageHost, loaded, activeToken, verificationInterval, timers,
                  pageToken, tokenAge, stopped, bgVars, popupVars, scorerVars >>

\* collectContextData() rejects (a signal source failed).
CollectFail(i) ==
  /\ i \in 1..Len(inflight)
  /\ inflight[i].stage = "collecting"
  /\ lastOp' = "collectFail"
  /\ Quiet
  /\ OnResponse(i, ErrorResponse("User denied Geolocation"))
  /\ UNCHANGED bgVars

\* collectContextData() resolves and requestZKPToken runs up to its fetch.
CollectDone(i) ==
  /\ i \in 1..Len(inflight)
  /\ inflight[i].stage = "collecting"
  /\ lastOp' = "requestToken"
  /\ UNCHANGED << popupVars, scorerVars >>
  /\ LET thrown == requestZKPTokenChecks(deviceKeyPair, pageHost)
     IN IF thrown = ""
        THEN /\ inflight' = [inflight EXCEPT ![i].stage = "issuing"]
             /\ sent' = << IssueTokenRequest(deviceKeyPair, pageHost) >>
             /\ emitted' = << >>
             /\ lastResponse' = Null /\ lastFetch' = Null
             /\ UNCHANGED << pageHost, loaded, activeToken, verificationInterval,
                             timers, pageToken, tokenAge, stopped >>
        ELSE /\ OnResponse(i, ResponseForError(thrown))
             /\ sent' = << >>
  /\ UNCHANGED bgVars

\* The issue-token fetch answers 2xx with { token, consistencyScore }.
IssueOk(i, token, score) ==
  /\ i \in 1..Len(inflight)
  /\ inflight[i].stage = "issuing"
  /\ lastOp' = "issueOk"
  /\ Quiet
  /\ OnResponse(i, TokenResponse([token |-> token, consistencyScore |-> score]))
  /\ UNCHANGED bgVars

\* The issue-token fetch answers non-2xx, or rejects.
IssueFail(i) ==
  /\ i \in 1..Len(inflight)
  /\ inflight[i].stage = "issuing"
  /\ lastOp' = "issueFail"
  /\ Quiet
  /\ OnResponse(i, ErrorResponse("Failed to obtain ZKP token"))
  /\ UNCHANGED bgVars

\* sendMessage rejects for a request whose port closed.
SendRejected(i) ==
  /\ i \in 1..Len(inflight)
  /\ inflight[i].stage = "closed"
  /\ lastOp' = "sendRejected"
  /\ Quiet
  /\ OnResponse(i, RejectedSend)
  /\ UNCHANGED bgVars

\* The first statement of the VERIFY_CONTEXT listener, sender.tab.url: the
\* popup is no tab and its sender has no tab property, so the listener throws
\* a TypeError before it collects or answers.
VerifyContextListener(senderHasTab) ==
  IF senderHasTab THEN "collects" ELSE "throws"

\* ------------------------------------------------------------------- popup
\* const API_ENDPOINT = 'https://api.walmart.com/secure-context'
POPUP_API_ENDPOINT == << "walmart.com" >>

\* JSON.stringify({ publicKey }) of the value read from storage: an absent
\* key is undefined and is left out of the body.
PublicKeyBody ==
  [f \in storage \cap {"publicKey"} |-> << "publicKey", "kp" >>]

\* A popup step changes nothing of the content script or the scorer.
PopupFrame ==
  /\ emitted' = << >>
  /\ lastResponse' = Null /\ lastFetch' = Null
  /\ UNCHANGED << pageHost, loaded, scorerVars >>

\* updateStatus(): on a walmart.com store tab the popup sends VERIFY_CONTEXT.
PopupVerify ==
  /\ popupPc = "idle"
  /\ Includes(pageHost, << "walmart.com" >>)
  /\ popupPc' = "verifySent"
  /\ lastOp' = "popupVerify"
  /\ sent' = << >>
  /\ PopupFrame
  /\ UNCHANGED << contentVars, bgVars, contextValid >>

\* The background listener runs for the popup's message and throws; the port
\* closes with no response and updateStatus shows 'Verification Failed'.
PopupVerifyEnds ==
  /\ popupPc = "verifySent"
  /\ VerifyContextListener(FALSE) = "throws"
  /\ popupPc' = "idle"
  /\ lastOp' = "popupUnanswered"
  /\ sent' = << >>
  /\ PopupFrame
  /\ UNCHANGED << contentVars, bgVars, contextValid >>

\* startDeviceEnrollment(), up to its fetch.
EnrollStart ==
  /\ popupPc = "idle"
  /\ popupPc' = "enrollSent"
  /\ lastOp' = "enrollStart"
  /\ sent' = << Post(POPUP_API_ENDPOINT, "/generate-enrollment", PublicKeyBody) >>
  /\ PopupFrame
  /\ UNCHANGED << contentVars, bgVars, contextValid >>

\* The generate-enrollment fetch answers: the QR code is shown, or showError.
EnrollDone(ok) ==
  /\ popupPc = "enrollSent"
  /\ popupPc' = "idle"
  /\ lastOp' = IF ok THEN "enrollShown" ELSE "enrollFailed"
  /\ sent' = << >>
  /\ PopupFrame
  /\ UNCHANGED << contentVars, bgVars, contextValid >>

\* revokeDevice(): confirm() answers; when declined the function returns,
\* when accepted the revoke-device request is sent.
RevokeStart(confirmed) ==
  /\ popupPc = "idle"
  /\ popupPc' = IF confirmed THEN "revokeSent" ELSE "idle"
  /\ lastOp' = IF confirmed THEN "revokeStart" ELSE "revokeDeclined"
  /\ sent' = IF confirmed
             THEN << Post(POPUP_API_ENDPOINT, "/revoke-device", PublicKeyBody) >>
             ELSE << >>
  /\ PopupFrame
  /\ UNCHANGED << contentVars, bgVars, contextValid >>

\* Mutant: a failed revoke-device request still erases the storage.
RevokeAnswered_ClearsOnFailure(ok) ==
  /\ popupPc = "revokeSent"
  /\ popupPc' = IF ok THEN "revokeApproved" ELSE "idle"
  /\ lastOp' = IF ok THEN "revokeOk" ELSE "revokeFailed"
  /\ sent' = << >>
  /\ PopupFrame
  /\ storage' = IF ok THEN storage ELSE {}
  /\ UNCHANGED << contentVars, deviceKeyPair, installPc, contextValid >>

\* The revoke-device fetch answers: 2xx schedules the erasure (setTimeout),
\* anything else throws into showError.
RevokeAnswered(ok) ==
  /\ popupPc = "revokeSent"
  /\ popupPc' = IF ok THEN "revokeApproved" ELSE "idle"
  /\ lastOp' = IF ok THEN "revokeOk" ELSE "revokeFailed"
  /\ sent' = << >>
  /\ PopupFrame
  /\ UNCHANGED << contentVars, bgVars, contextValid >>

\* The setTimeout callback of revokeDevice: chrome.storage.local.clear(), then
\* chrome.runtime.reload().  The reload restarts the background process,
\* closes the popup and the ports of the requests being served, and leaves
\* the content script running in its page with an invalidated extension
\* context.  onInstalled may or may not fire again for the reloaded extension.
RevokeClear(reinstall) ==
  /\ popupPc = "revokeApproved"
  /\ popupPc' = "idle"
  /\ lastOp' = "revokeClear"
  /\ sent' = << >>
  /\ storage' = {}
  /\ deviceKeyPair' = Null
  /\ installPc' = IF reinstall THEN "pending" ELSE installPc
  /\ contextValid' = FALSE
  /\ inflight' = [i \in 1..Len(inflight) |-> [inflight[i] EXCEPT !.stage = "closed"]]
  /\ PopupFrame
  /\ UNCHANGED << activeToken, verificationInterval, timers, pageToken, tokenAge,
                  stopped >>

\* --------------------------------------------------- collector and scorer
\* A JavaScript object is the sequence of its leaf fields in insertion order,
\* each << path, value >>; JSON.stringify visits them in that order.  Constant
\* leaves ([], null, 0) are written 0.
Nest(name, object) ==
  [i \in 1..Len(object) |-> << << name >> \o object[i][1], object[i][2] >>]

\* object.a.b, or Null for undefined.
Get(object, path) ==
  IF \E i \in 1..Len(object) : object[i][1] = path
  THEN Some(object[CHOOSE i \in 1..Len(object) : object[i][1] = path][2])
  ELSE Null

\* getGeolocationData(): { lat, lng, accuracy } of the position.
getGeolocationData(accuracy) ==
  << << <<"lat">>, 0 >>, << <<"lng">>, 0 >>, << <<"accuracy">>, accuracy >> >>

\* getWiFiData() at Date.now() = now
getWiFiData(now) ==
  << << <<"nearby_networks">>, 0 >>, << <<"connection_strength">>, 0 >>,
     << <<"timestamp">>, now >> >>

\* getMotionSignature() at Date.now() = now
getMotionSignature(now) ==
  << << <<"acceleration", "x">>, 0 >>, << <<"acceleration", "y">>, 0 >>,
     << <<"acceleration", "z">>, 0 >>, << <<"rotation", "alpha">>, 0 >>,
     << <<"rotation", "beta">>, 0 >>, << <<"rotation", "gamma">>, 0 >>,
     << <<"timestamp">>, now >> >>

\* getPOSTerminalBeacon() at Date.now() = now
getPOSTerminalBeacon(now) ==
  << << <<"terminal_id">>, 0 >>, << <<"signal_strength">>, 0 >>,
     << <<"timestamp">>, now >> >>

\* The order in which collectContextData writes the fields of contextData.
CodeFieldOrder ==
  << "location", "wifi_fingerprint", "motion_signature", "pos_terminal", "timestamp" >>
\* Field orders a snapshot may be constructed in.
FieldOrders ==
  { CodeFieldOrder,
    << "timestamp", "pos_terminal", "motion_signature", "wifi_fingerprint", "location" >> }

\* The contextData object of the readings, its fields inserted in order.
RECURSIVE BuildContextData(_, _)
BuildContextData(readings, order) ==
  IF order = << >> THEN << >>
  ELSE LET name == Head(order)
           part == IF name = "location" THEN Nest(name, getGeolocationData(readings.accuracy))
                   ELSE IF name = "wifi_fingerprint" THEN Nest(name, getWiFiData(readings.tWifi))
                   ELSE IF name = "motion_signature" THEN Nest(name, getMotionSignature(readings.tMotion))
                   ELSE IF name = "pos_terminal" THEN Nest(name, getPOSTerminalBeacon(readings.tPos))
                   ELSE << << <<"timestamp">>, readings.tTop >> >>
       IN part \o BuildContextData(readings, Tail(order))

\* Math.max and Math.min of a list: NaN (Null) when an element is undefined.
MaxOf(S) == CHOOSE y \in S : \A z \in S : z <= y
MinOf(S) == CHOOSE y \in S : \A z \in S : y <= z
MathMax(list) ==
  IF \E i \in 1..Len(list) : list[i] = Null THEN Null
  ELSE Some(MaxOf({list[i][1] : i \in 1..Len(list)}))
MathMin(list) ==
  IF \E i \in 1..Len(list) : list[i] = Null THEN Null
  ELSE Some(MinOf({list[i][1] : i \in 1..Len(list)}))

\* evaluateLocationConsistency(contextData.location)
evaluateLocationConsistency(contextData) ==
  LET accuracy == Get(contextData, << "location", "accuracy" >>)
  IN IF accuracy # Null /\ accuracy[1] <= 20 THEN 1000 ELSE 500

\* evaluateTemporalConsistency(contextData): a comparison with NaN is false.
evaluateTemporalConsistency(contextData) ==
  LET timestamps == << Get(contextData, << "timestamp" >>),
                       Get(contextData, << "location", "timestamp" >>),
                       Get(contextData, << "wifi_fingerprint", "timestamp" >>),
                       Get(contextData, << "motion_signature", "timestamp" >>) >>
      hi == MathMax(timestamps)
      lo == MathMin(timestamps)
      maxDiff == IF hi = Null \/ lo = Null THEN Null ELSE Some(hi[1] - lo[1])
  IN IF maxDiff # Null /\ maxDiff[1] < 5000 THEN 1000 ELSE 500

\* evaluateMotionConsistency, evaluateNetworkConsistency
evaluateMotionConsistency(contextData) == 1000
evaluateNetworkConsistency(contextData) == 1000

\* The scores object of computeConsistencyScore.
SubScores(contextData) ==
  [location_consistency |-> evaluateLocationConsistency(contextData),
   temporal_consistency |-> evaluateTemporalConsistency(contextData),
   motion_consistency |-> evaluateMotionConsistency(contextData),
   network_consistency |-> evaluateNetworkConsistency(contextData)]

\* Mutant: the sum is returned undivided.
computeConsistencyScore_Sum(contextData) ==
  LET scores == SubScores(contextData)
  IN scores.location_consistency + scores.temporal_consistency
       + scores.motion_consistency + scores.network_consistency

\* computeConsistencyScore(contextData)
computeConsistencyScore(contextData) ==
  LET scores == SubScores(contextData)
  IN (scores.location_consistency + scores.temporal_consistency
        + scores.motion_consistency + scores.network_consistency)
       \div Cardinality(DOMAIN scores)

\* JSON.stringify(contextData): the fields in insertion order, values as text.
JSONstringify(object) ==
  [i \in 1..Len(object) |-> << object[i][1], ToString(object[i][2]) >>]

\* generateContextHash(contextData): SHA-256, taken as injective on its input.
generateContextHash(contextData) == << "sha256", JSONstringify(contextData) >>

\* collectContextData() when every source resolves.
collectContextData(readings) ==
  LET contextData == BuildContextData(readings, CodeFieldOrder)
  IN [readings |-> readings,
      contextData |-> contextData,
      contextHash |-> generateContextHash(contextData),
      consistencyScore |-> computeConsistencyScore(contextData)]

\* Reported accuracies, and times (ms) of Date.now() during one collection.
Accuracies == {10, 20, 21, 50}
Times == {0, 2000, 5000, 8000}

appVars == << pageHost, loaded, contentVars, bgVars, popupVars, emitted, lastOp,
             lastResponse, lastFetch, sent >>

\* One collection: the three mock sources read the clock in call order, the
\* snapshot is stamped after the position has arrived.
CollectContext(accuracy, tWifi, tMotion, tPos, tTop) ==
  /\ tWifi <= tMotion /\ tMotion <= tPos /\ tPos <= tTop
  /\ LET result == collectContextData([accuracy |-> accuracy, tWifi |-> tWifi,
                                        tMotion |-> tMotion, tPos |-> tPos, tTop |-> tTop])
     IN /\ ctx' = Some(result)
        /\ hashed' = {[object |-> result.contextData, hash |-> result.contextHash]}
  /\ UNCHANGED appVars

\* generateContextHash of the same snapshot constructed in another order.
HashReordered(order) ==
  /\ ctx # Null
  /\ LET object == BuildContextData(ctx[1].readings, order)
     IN hashed' = hashed \cup {[object |-> object, hash |-> generateContextHash(object)]}
  /\ UNCHANGED << ctx, appVars >>

ScorerNext ==
  \/ \E accuracy \in Accuracies, tWifi \in Times, tMotion \in Times,
        tPos \in Times, tTop \in Times :
        CollectContext(accuracy, tWifi, tMotion, tPos, tTop)
  \/ \E order \in FieldOrders : HashReordered(order)

\* ------------------------------------------------------------ specification
Init ==
  /\ pageHost \in Hostnames
  /\ loaded = FALSE
  /\ activeToken = Null
  /\ verificationInterval = NoTimer
  /\ timers = << >>
  /\ inflight = << >>
  /\ pageToken = Null
  /\ tokenAge = 0
  /\ stopped = FALSE
  /\ emitted = << >>
  /\ lastOp = "init"
  /\ lastResponse = Null
  /\ lastFetch = Null
  /\ deviceKeyPair = Null
  /\ storage = {}
  /\ installPc = "pending"
  /\ popupPc = "idle"
  /\ contextValid = TRUE
  /\ sent = << >>
  /\ ctx = Null
  /\ hashed = {}

Next ==
  \/ \E onStorePage \in BOOLEAN : ScriptLoad(onStorePage)
  \/ \E inStore \in BOOLEAN : NavigationChange(inStore)
  \/ \E id \in DOMAIN timers : Tick(id)
  \/ Advance
  \/ \E url \in FetchUrls, argKind \in FetchArgKinds : Fetch(url, argKind)
  \/ InstallGenerate
  \/ InstallPersist
  \/ Restart
  \/ \E i \in 1..Len(inflight) : CollectFail(i)
  \/ \E i \in 1..Len(inflight) : CollectDone(i)
  \/ \E i \in 1..Len(inflight), token \in TokenValues, score \in ServerScores :
        IssueOk(i, token, score)
  \/ \E i \in 1..Len(inflight) : IssueFail(i)
  \/ \E i \in 1..Len(inflight) : SendRejected(i)
  \/ PopupVerify
  \/ PopupVerifyEnds
  \/ EnrollStart
  \/ \E ok \in BOOLEAN : EnrollDone(ok)
  \/ \E confirmed \in BOOLEAN : RevokeStart(confirmed)
  \/ \E ok \in BOOLEAN : RevokeAnswered(ok)
  \/ \E reinstall \in BOOLEAN : RevokeClear(reinstall)

Spec == Init /\ [][Next]_vars

\* The collector, scorer and hasher alone, over every reading in the bounds.
ScorerSpec == Init /\ [][ScorerNext]_vars

TypeOK ==
  /\ loaded \in BOOLEAN
  /\ verificationInterval \in 0..(MaxInFlight + 1)
  /\ tokenAge \in 0..TokenTTL
  /\ Len(inflight) <= MaxInFlight


\* Fairness: time passes, a due timer fires, and every request the
\* background worker is serving is eventually answered or its port closed.
Deliver ==
  \E i \in 1..Len(inflight) :
    \/ CollectFail(i)
    \/ CollectDone(i)
    \/ IssueFail(i)
    \/ SendRejected(i)
    \/ \E token \in TokenValues, score \in ServerScores : IssueOk(i, token, score)

\* The steps of the verification loop and of the background worker that
\* serves it: Next without the page's fetch calls and the popup.
LoopNext ==
  \/ \E onStorePage \in BOOLEAN : ScriptLoad(onStorePage)
  \/ \E inStore \in BOOLEAN : NavigationChange(inStore)
  \/ \E id \in DOMAIN timers : Tick(id)
  \/ Advance
  \/ InstallGenerate
  \/ InstallPersist
  \/ Restart
  \/ Deliver

FairSpec ==
  /\ Init /\ [][LoopNext]_vars
  /\ WF_vars(Advance)
  /\ WF_vars(\E id \in DOMAIN timers : Tick(id))
  /\ WF_vars(Deliver)

\* ------------------------------------------------------------------ claims
EmittedTypes == {emitted[k].type : k \in 1..Len(emitted)}
EmittedActive ==
  \E k \in 1..Len(emitted) :
    \/ emitted[k].type = "secureContextTokenUpdated"
    \/ emitted[k].type = "secureContextStatusChanged" /\ emitted[k].detail = "active"
EmittedFailed == "secureContextVerificationFailed" \in EmittedTypes

\* C1: once stop has run and until the next start, the response of a run
\* started before the stop is discarded: activeToken stays null and no
\* 'active' status or token-availability event is emitted.
C1_StopDiscardsInFlight ==
  stopped => (activeToken = Null /\ ~EmittedActive)

\* C2: at most one verifyContext run is outstanding at any time.
C2_SingleFlight == Len(inflight) <= 1

\* C3: whenever activeToken is non-null while the loop is running (its timer
\* scheduled), fewer than 30 seconds have passed since the token was received.
C3_TokenWithinTTL ==
  (activeToken # Null /\ verificationInterval # NoTimer) => tokenAge < 30

\* C4: a non-null activeToken has a score of at least 0.7; a successful
\* response scoring exactly 0.7 becomes the active token; a successful
\* response scoring below 0.7 leaves activeToken null with a failure event.
C4_ThresholdGating ==
  /\ activeToken # Null => activeToken[1].consistencyScore >= 700
  /\ \A r \in {lastResponse[k] : k \in 1..Len(lastResponse)} :
       (r.success /\ r.token # Null) =>
         /\ r.token[1].consistencyScore = 700 =>
              (activeToken = r.token /\ EmittedActive /\ ~EmittedFailed)
         /\ r.token[1].consistencyScore < 700 =>
              (activeToken = Null /\ EmittedFailed /\ ~EmittedActive)
C4_Witness ==
  /\ lastResponse # Null
  /\ lastResponse[1].success
  /\ lastResponse[1].token[1].consistencyScore = 700
  /\ activeToken = lastResponse[1].token

\* C5: stop, from any loop state, leaves no timer, a null activeToken and
\* exactly one 'inactive' status event; while stopped no timer exists and no
\* step starts a verifyContext run.
C5_StopState ==
  /\ lastOp = "stop" =>
       /\ verificationInterval = NoTimer
       /\ DOMAIN timers = {}
       /\ activeToken = Null
       /\ emitted = << StatusEvent("inactive", 0) >>
  /\ stopped => (DOMAIN timers = {} /\ verificationInterval = NoTimer)
C5_Stop ==
  /\ []C5_StopState
  /\ [][(stopped /\ stopped') => Len(inflight') <= Len(inflight)]_vars
\* stop ran while a run was in flight and after a token had been active
C5_Witness ==
  /\ lastOp = "stop"
  /\ inflight # << >>
  /\ pageToken # Null

\* C6: a step that ends a run in failure leaves the recurring timer as it
\* was, and from a failed state with the timer scheduled a tick later starts
\* another run, unless the timer is cancelled by stop or replaced by start.
C6_FailureKeepsTimer ==
  /\ [][EmittedFailed' => (timers' = timers /\ verificationInterval' = verificationInterval)]_vars
  /\ [](EmittedFailed => (stopped \/ (verificationInterval # NoTimer
                                      /\ verificationInterval \in DOMAIN timers)))
  /\ (EmittedFailed /\ verificationInterval # NoTimer)
       ~> (lastOp = "tick" \/ lastOp = "stop" \/ lastOp = "start" \/ lastOp = "startOver")
C6_Witness ==
  /\ EmittedFailed
  /\ verificationInterval # NoTimer
  /\ verificationInterval \in DOMAIN timers
  /\ inflight = << >>

\* C7: a token request for a site whose hostname matches no registry key is
\* answered with the degraded success, whatever the state of the key pair.
C7_UnsupportedSiteDegrades ==
  (lastOp = "requestToken" /\ getApiEndpoint(pageHost) = 0 /\ lastResponse # Null)
    => lastResponse[1] = TokenResponse(DegradedToken)

\* C8: on a degraded-success response verifyContext emits no
\* verification-failed event.
C8_DegradedNotFailure ==
  (lastResponse # Null /\ lastResponse[1] = TokenResponse(DegradedToken))
    => ~EmittedFailed

\* C9: an intercepted fetch is always forwarded, and carries the three
\* attestation headers, with the values of activeToken and the site key,
\* exactly when the page is on a supported site, the url contains the site's
\* apiPattern and activeToken is non-null.
C9_InterceptorIff ==
  \A f \in {lastFetch[k] : k \in 1..Len(lastFetch)} :
    LET site == getCurrentSite(pageHost)
        attach == /\ site # 0
                  /\ Includes(f.url, SUPPORTED_SITES[site].apiPattern)
                  /\ activeToken # Null
    IN /\ f.forwarded
       /\ attach =>
            /\ f.headers["X-Secure-Context-Token"] = << <<activeToken[1].token>> >>
            /\ f.headers["X-Context-Consistency-Score"] =
                 << <<ToString(activeToken[1].consistencyScore)>> >>
            /\ f.headers["X-Shopping-Site"] = << SUPPORTED_SITES[site].domain >>
       /\ ~attach => \A h \in HeaderNames : f.headers[h] = Null

\* C10: once installation has completed, the key pair is available in every
\* state, restarts included, and no token request fails for want of it.
C10_KeyPairSurvivesRestart ==
  installPc = "done" =>
    /\ deviceKeyPair # Null
    /\ lastResponse # Null =>
         lastResponse[1].error # "Device key pair not initialized"


\* C11: a run that fails because the returned score is below 0.7 (0 included)
\* emits the reason 'Insufficient consistency score'; a run that fails on an
\* error response or a rejected send emits another reason.
C11_ReasonsDistinct ==
  \A r \in {lastResponse[k] : k \in 1..Len(lastResponse)} :
    /\ (r.success /\ r.token # Null /\ r.token[1].token # "null"
          /\ r.token[1].consistencyScore < 700)
         => (EmittedFailed /\ emitted[1].detail = "Insufficient consistency score")
    /\ ~r.success
         => (EmittedFailed /\ emitted[1].detail # "Insufficient consistency score")

\* C12: every VERIFY_CONTEXT request that ends, from the content script or
\* from the popup, ends with one response of the form {success, token?,
\* error?} (requests cut off by a restart of the background process aside).
RequestEnded ==
  \/ lastOp \in {"collectFail", "issueOk", "issueFail", "popupUnanswered"}
  \/ lastOp = "requestToken" /\ sent = << >>
C12_EveryRequestAnswered ==
  RequestEnded => (Len(lastResponse) = 1 /\ lastResponse[1].kind = "message")

\* C13: for a collected snapshot, temporal consistency is 1.0 exactly when
\* its readings lie less than 5000 ms apart, and with accuracy <= 20 and such
\* readings all four sub-scores and the aggregate are 1.0.
ReadingSpread(readings) ==
  MaxOf({readings.tWifi, readings.tMotion, readings.tPos, readings.tTop})
    - MinOf({readings.tWifi, readings.tMotion, readings.tPos, readings.tTop})
C13_ConsistentSnapshotScoresOne ==
  \A c \in {ctx[k] : k \in 1..Len(ctx)} :
    LET scores == SubScores(c.contextData)
    IN /\ (scores.temporal_consistency = 1000) <=> (ReadingSpread(c.readings) < 5000)
       /\ (c.readings.accuracy <= 20 /\ ReadingSpread(c.readings) < 5000)
            => /\ \A f \in DOMAIN scores : scores[f] = 1000
               /\ c.consistencyScore = 1000

SameFields(a, b) == {a[i] : i \in 1..Len(a)} = {b[i] : i \in 1..Len(b)}
C15_HashOrderIndependent ==
  \A x \in hashed, y \in hashed : SameFields(x.object, y.object) => x.hash = y.hash

\* C16: a failed collection ends the request with {success: false, error},
\* sends no issue-token request, produces no snapshot, hash or score and
\* starts no other attempt.
C16_FailFast ==
  /\ [](lastOp = "collectFail" =>
          /\ sent = << >>
          /\ Len(lastResponse) = 1
          /\ lastResponse[1].kind = "message"
          /\ ~lastResponse[1].success
          /\ lastResponse[1].token = Null)
  /\ [][lastOp' = "collectFail" =>
          /\ Len(inflight') = Len(inflight) - 1
          /\ \A i \in 1..Len(inflight') : inflight'[i].stage # "issuing"
               \/ \E j \in 1..Len(inflight) : inflight[j].stage = "issuing"
          /\ ctx' = ctx /\ hashed' = hashed]_vars
C16_Witness ==
  /\ lastOp = "collectFail"
  /\ lastResponse # Null
  /\ ~lastResponse[1].success
  /\ deviceKeyPair # Null

\* C17: the stored key is erased only by the step that follows a confirmed
\* revoke answered with success; a declined confirmation sends nothing and a
\* failed request leaves the storage as it was.
C17_RevokeOrder ==
  /\ [][("publicKey" \in storage /\ "publicKey" \notin storage')
          => (popupPc = "revokeApproved" /\ lastOp' = "revokeClear")]_vars
  /\ [][(popupPc' = "revokeApproved" /\ popupPc # "revokeApproved")
          => (popupPc = "revokeSent" /\ lastOp' = "revokeOk")]_vars
  /\ [][(popupPc' = "revokeSent" /\ popupPc # "revokeSent")
          => (lastOp' = "revokeStart" /\ Len(sent') = 1
              /\ sent'[1].path = "/revoke-device")]_vars
  /\ [][lastOp' = "revokeDeclined"
          => (sent' = << >> /\ storage' = storage /\ popupPc' = "idle")]_vars
  /\ [][lastOp' = "revokeFailed" => (sent' = << >> /\ storage' = storage)]_vars
C17_Witness ==
  /\ lastOp = "revokeClear"
  /\ storage = {}
  /\ installPc = "done"

\* C18: once a revoke has completed the browsing context holds no token, and
\* no intercepted fetch carries attestation headers.
C18_RevokeErasesTokens ==
  ~contextValid =>
    /\ activeToken = Null
    /\ pageToken = Null
    /\ \A f \in {lastFetch[k] : k \in 1..Len(lastFetch)} : f.headers = NoHeaders

\* C19: no revoke of the device key is in progress while an issue-token
\* request signed with that key is outstanding.
C19_RevokeExcludesSigning ==
  ~ /\ popupPc \in {"revokeSent", "revokeApproved"}
    /\ \E i \in 1..Len(inflight) : inflight[i].stage = "issuing"

\* C20: neither the storage nor the body of any request sent nor any response
\* to the content script holds the private key; an issue-token body has
\* exactly the fields contextHash, signature, consistencyScore, publicKey.
C20_PrivateKeyStaysInside ==
  /\ storage \subseteq {"publicKey"}
  /\ \A k \in 1..Len(sent) :
       /\ \A f \in DOMAIN sent[k].body :
            f # "privateKey" /\ sent[k].body[f] # << "privateKey", "kp" >>
       /\ sent[k].path = "/issue-token" =>
            DOMAIN sent[k].body =
              {"contextHash", "signature", "consistencyScore", "publicKey"}
       /\ sent[k].path \in {"/generate-enrollment", "/revoke-device"} =>
            DOMAIN sent[k].body \subseteq {"publicKey"}
  /\ \A r \in {lastResponse[k] : k \in 1..Len(lastResponse)} :
       /\ DOMAIN r = {"kind", "success", "token", "error"}
       /\ r.token # Null => DOMAIN r.token[1] = {"token", "consistencyScore"}
C20_Witness ==
  /\ Len(sent) = 1
  /\ sent[1].path = "/issue-token"
  /\ deviceKeyPair # Null

\* C21: the page-visible token (window.secureContextToken) is non-null only
\* while it is the content script's activeToken; once the loop has stopped or
\* failed the page-visible token is null.
C21_PageTokenNeverStale ==
  pageToken # Null => activeToken = pageToken

\* A step in which a run receives its response after a run started later
\* than it has already received its own.
LateResponse ==
  \E i \in 1..Len(inflight) :
    /\ inflight[i].superseded
    /\ lastResponse' # Null
    /\ inflight' = Completed(inflight, i)

\* C22: refreshes supersede in start order: the response to a run that
\* arrives after the response to a run started later never overwrites the
\* later run's outcome, so activeToken stays what the later run made it.
C22_SupersedeInStartOrder ==
  [][LateResponse => activeToken' = activeToken]_vars

\* C23: at most one recurring timer exists, and verificationInterval is
\* non-null exactly when a timer is scheduled, the one it names; a start
\* while the loop is running cancels the existing timer before it schedules
\* the new one.
C23_TimerState ==
  /\ Cardinality(DOMAIN timers) <= 1
  /\ verificationInterval # NoTimer <=> DOMAIN timers # {}
  /\ verificationInterval # NoTimer => DOMAIN timers = {verificationInterval}
C23_SingleTimer ==
  /\ []C23_TimerState
  /\ [][lastOp' = "startOver" =>
          /\ verificationInterval # NoTimer
          /\ verificationInterval' # NoTimer
          /\ DOMAIN timers' = {verificationInterval'}
          /\ timers'[verificationInterval'] = TickInterval]_vars
\* start ran while a timer was scheduled and a run was still in flight
C23_Witness ==
  /\ lastOp = "startOver"
  /\ Len(inflight) = 2
  /\ DOMAIN timers = {verificationInterval}

====
